---- MODULE Spec2Model ----
(***************************************************************************)
(* Model of the article-processing route (POST /api/process-article):      *)
(* credential check, body validation, page fetch under a 15 s abort timer, *)
(* content extraction, completion call, JSON recovery, score validation    *)
(* and assembly of the story record.                                       *)
(*                                                                         *)
(* One request is followed from the call of POST to its response.  Every   *)
(* action is one run-to-completion step of the handler between two awaits, *)
(* or the callback of the abort timer.                                     *)
(***************************************************************************)
EXTENDS Integers, Sequences, FiniteSets, TLC

VARIABLES
    apiKey,       \* process.env.ANTHROPIC_API_KEY is set (process configuration)
    pc,           \* position of the handler: the await it is suspended at
    reqBody,      \* what req.json() yields for this request
    originalUrl,  \* the handler's originalUrl variable
    timer,        \* the setTimeout handle of the fetch deadline
    aborted,      \* controller.signal.aborted
    upstream,     \* status of the page response (0: none received)
    doc,          \* what the document parser and Readability found in the page
    articleText,  \* the handler's articleText variable
    scraped,      \* the handler's other locals of step 1 (title, source, metadata)
    reply,        \* the completion service's reply
    trace,        \* stages run so far, in order
    responses,    \* responses produced by the handler, in order
    helper,       \* a direct call of one of the module's helper functions
    parked,       \* the locals of a second invocation of the handler, suspended
                  \* at an await while the first one runs
    prompt        \* the handler's prompt variable: what goes to the completion call

handlerVars == <<apiKey, pc, reqBody, originalUrl, timer, aborted, upstream, doc,
                 articleText, scraped, reply, trace, responses, parked, prompt>>

vars == <<apiKey, pc, reqBody, originalUrl, timer, aborted, upstream, doc,
          articleText, scraped, reply, trace, responses, helper, parked, prompt>>

----------------------------------------------------------------------------
(* Bounds of the model *)

MaxSections == 2      \* longest factSections array the completion returns
MaxPad == 1           \* most surrounding whitespace characters of a text

(* Program constants *)

MinContent == 150     \* minimum acceptable length of the article text

----------------------------------------------------------------------------
(* JSON / JavaScript values.  Strings are sequences of characters. *)

Undef == [t |-> "undefined"]
Null == [t |-> "null"]
Num(n) == [t |-> "number", n |-> n]
Str(s) == [t |-> "string", s |-> s]
Arr(a) == [t |-> "array", a |-> a]
Obj(o) == [t |-> "object", o |-> o]

\* JavaScript truthiness (the operand of `!x`, `x || y`, `if (x)`)
Truthy(v) ==
    CASE v.t = "undefined" -> FALSE
      [] v.t = "null" -> FALSE
      [] v.t = "number" -> v.n # 0
      [] v.t = "string" -> v.s # <<>>
      [] OTHER -> TRUE

\* typeof v === 'number'
IsNumber(v) == v.t = "number"

\* typeof v === 'string'
IsString(v) == v.t = "string"

\* Array.isArray(v)
IsArray(v) == v.t = "array"

\* property access v.k on a parsed value (undefined when absent)
Get(v, k) == IF v.t = "object" /\ k \in DOMAIN v.o THEN v.o[k] ELSE Undef

Contains(msg, tok) == \E i \in 1..Len(msg) : msg[i] = tok

----------------------------------------------------------------------------
(* Request bodies *)

UrlA == <<"h", "t", "t", "p", ":", "/", "/", "a", "/", "1">>
UrlB == <<"H", "T", "T", "P", ":", "/", "/", "b">>
NotAUrl == <<"a", " ", "b">>

\* the strings `new URL(s)` accepts
ValidUrls == {UrlA, UrlB}

\* new URL(articleUrl) does not throw
ParsesAsUrl(s) == s \in ValidUrls

ArticleUrlValues ==
    {Undef, Null, Str(<<>>), Num(0), Num(5), Str(NotAUrl), Str(UrlA), Str(UrlB)}

\* "notJson": req.json() rejects; otherwise the parsed JSON value
RequestBodies ==
    {[json |-> FALSE, value |-> Undef], [json |-> TRUE, value |-> Null],
     [json |-> TRUE, value |-> Num(7)]}
    \cup {[json |-> TRUE, value |-> Obj([articleUrl |-> u])] : u \in ArticleUrlValues}

----------------------------------------------------------------------------
(* Responses *)

ErrorResponse(msg, status) == [status |-> status, body |-> [error |-> msg]]

ConfigErrorMessage == <<"Server configuration error: API key missing.">>

\* variant: the status option is left out, so the response gets the default
OuterCatch_DefaultStatus(msg) == ErrorResponse(msg, 200)

\* the outer catch of POST: any thrown Error becomes a 500 carrying its message
OuterCatch(msg) == ErrorResponse(msg, 500)

Respond(r) == /\ responses' = Append(responses, r)
              /\ pc' = "done"

----------------------------------------------------------------------------
\* variant: the client is built without looking at the key
getAnthropicClient_NoKeyCheck == TRUE

\* getAnthropicClient(): TRUE when it returns a client, FALSE when it throws
getAnthropicClient == apiKey

\* POST is called: the client is built first, then the body is awaited
PostStart(b) ==
    /\ pc = "idle"
    /\ reqBody' = b
    /\ trace' = Append(trace, "config")
    /\ IF getAnthropicClient
       THEN /\ pc' = "readBody"
            /\ UNCHANGED responses
       ELSE Respond(OuterCatch(ConfigErrorMessage))
    /\ UNCHANGED <<prompt, parked, helper, apiKey, originalUrl, timer, aborted, upstream, doc,
                   articleText, scraped, reply>>

\* const { articleUrl } = body
ArticleUrlOf(body) == Get(body, "articleUrl")

\* variant: the string is not parsed as a URL
ValidateUrl_NoParse(articleUrl) ==
    IF ~Truthy(articleUrl) \/ ~IsString(articleUrl)
    THEN <<ErrorResponse(<<"Article URL is required">>, 400)>>
    ELSE <<>>

\* the validation of articleUrl: <<>> when it passes, else the 400 response
ValidateUrl(articleUrl) ==
    IF ~Truthy(articleUrl) \/ ~IsString(articleUrl)
    THEN <<ErrorResponse(<<"Article URL is required">>, 400)>>
    ELSE IF ~ParsesAsUrl(articleUrl.s)
         THEN <<ErrorResponse(<<"Invalid URL format provided">>, 400)>>
         ELSE <<>>

\* req.json() settles: destructuring, validation, then the timer is armed and
\* the page fetch is issued
BodyParsed ==
    /\ pc = "readBody"
    /\ IF ~reqBody.json
       THEN \* req.json() rejects with a SyntaxError
            /\ Respond(OuterCatch(<<"Unexpected token in JSON">>))
            /\ trace' = Append(trace, "body")
            /\ UNCHANGED <<originalUrl, timer>>
       ELSE IF reqBody.value.t \in {"null", "undefined"}
       THEN \* destructuring null throws a TypeError
            /\ Respond(OuterCatch(<<"Cannot destructure property 'articleUrl'">>))
            /\ trace' = Append(trace, "body")
            /\ UNCHANGED <<originalUrl, timer>>
       ELSE LET articleUrl == ArticleUrlOf(reqBody.value)
                bad == ValidateUrl(articleUrl)
            IN /\ originalUrl' = articleUrl
               /\ IF bad # <<>>
                  THEN /\ Respond(bad[1])
                       /\ trace' = trace \o <<"body", "validate">>
                       /\ UNCHANGED timer
                  ELSE /\ timer' = "pending"
                       /\ pc' = "fetching"
                       /\ trace' = trace \o <<"body", "validate", "fetch">>
                       /\ UNCHANGED responses
    /\ UNCHANGED <<prompt, parked, helper, apiKey, reqBody, aborted, upstream, doc, articleText, scraped, reply>>

----------------------------------------------------------------------------
(* Step 1: fetch *)

UpstreamStatuses == {200, 403, 404, 500, 503}

StatusText(status) ==
    CASE status = 200 -> "OK"
      [] status = 403 -> "Forbidden"
      [] status = 404 -> "Not Found"
      [] status = 500 -> "Internal Server Error"
      [] OTHER -> "Service Unavailable"

\* response.ok
\* variant: every response counts as ok
Ok_Always(status) == TRUE

Ok(status) == status >= 200 /\ status <= 299

\* variant: the message names the reason but not the status code
FetchFailure_NoStatus(status) ==
    [name |-> "Error",
     message |-> <<"Failed to fetch article:", StatusText(status)>>]

\* the Error thrown for a response that is not ok
FetchFailure(status) ==
    [name |-> "Error",
     message |->
       IF status = 403
       THEN <<"Failed to fetch article:", "Access denied", "(", ToString(403), ").",
              "The site may block automated requests.">>
       ELSE IF status = 404
       THEN <<"Failed to fetch article:", "Not Found", "(", ToString(404), ").",
              "Check the URL.">>
       ELSE <<"Failed to fetch article:", ToString(status), StatusText(status)>>]

AbortError == [name |-> "AbortError", message |-> <<"The user aborted a request.">>]

TimeoutMessage == <<"Failed to fetch article: The request timed out.">>

\* rejections of fetch() other than the abort
NetworkErrors ==
    {[name |-> "FetchError", message |-> <<"request failed, reason: ENOTFOUND">>],
     [name |-> "TypeError", message |-> <<"Only HTTP(S) protocols are supported">>]}

\* variant: the catch does not tell the abort from the other failures
InnerCatch_NoAbortCase(fetchError) == ErrorResponse(fetchError.message, 500)

\* catch (fetchError) of the fetch-and-extract block
InnerCatch(fetchError) ==
    IF fetchError.name = "AbortError"
    THEN ErrorResponse(TimeoutMessage, 504)
    ELSE ErrorResponse(fetchError.message, 500)

\* fetch() resolves with the response headers
FetchResolve(status) ==
    /\ pc = "fetching"
    /\ timer' = "cleared"
    /\ upstream' = status
    /\ IF ~Ok(status)
       THEN Respond(InnerCatch(FetchFailure(status)))
       ELSE /\ pc' = "readingBody"
            /\ UNCHANGED responses
    /\ UNCHANGED <<prompt, parked, helper, apiKey, reqBody, originalUrl, aborted, doc, articleText,
                   scraped, reply, trace>>

\* fetch() rejects before any response: the timer is not cleared
FetchReject(err) ==
    /\ pc = "fetching"
    /\ Respond(InnerCatch(err))
    /\ UNCHANGED <<prompt, parked, helper, apiKey, reqBody, originalUrl, timer, aborted, upstream, doc,
                   articleText, scraped, reply, trace>>

\* variant: the abort reaches the handler whatever it is doing
TimerFire_AlwaysRejects ==
    /\ timer = "pending"
    /\ timer' = "fired"
    /\ aborted' = TRUE
    /\ Respond(InnerCatch(AbortError))
    /\ UNCHANGED <<prompt, parked, helper, apiKey, reqBody, originalUrl, upstream, doc, articleText,
                   scraped, reply, trace>>

\* the deadline callback, () => controller.abort(): a pending fetch rejects
\* with an AbortError; a settled one is not affected
TimerFire ==
    /\ timer = "pending"
    /\ timer' = "fired"
    /\ aborted' = TRUE
    /\ IF pc = "fetching"
       THEN Respond(InnerCatch(AbortError))
       ELSE UNCHANGED <<pc, responses>>
    /\ UNCHANGED <<prompt, parked, helper, apiKey, reqBody, originalUrl, upstream, doc, articleText,
                   scraped, reply, trace>>

----------------------------------------------------------------------------
(* Step 1: extraction.  A text is known by its length after trimming (len)   *)
(* and the number of whitespace characters around it (pad).                 *)

Text(pad, len) == [pad |-> pad, len |-> len]
EmptyText == Text(0, 0)

\* s.length
Length(s) == s.pad + s.len

\* s.trim()
Trim(s) == Text(0, s.len)

ContentLens == {MinContent - 1, MinContent, MinContent + 1}

Texts == {Text(p, n) : p \in 0..MaxPad, n \in ContentLens}

\* reader.parse(): null, or an article with its textContent and the <img>
\* tags of its content
Articles ==
    {[present |-> FALSE, textContent |-> EmptyText, images |-> <<>>]}
    \cup {[present |-> TRUE, textContent |-> s, images |-> <<>>] : s \in Texts}

\* document.body?.textContent: undefined, or the text of the body
Bodies ==
    {[present |-> FALSE, textContent |-> EmptyText]}
    \cup {[present |-> TRUE, textContent |-> s] : s \in Texts}

PageTitle == <<"P">>
TitleNotFound == <<"T", "n", "f">>

\* a page: what Readability and the body yield, document.title, the content
\* of the og:image tag and of the first date tag (Undef: no such tag)
Docs ==
    {[article |-> a, body |-> b, title |-> Str(PageTitle), ogImage |-> Undef,
      date |-> Undef] :
        a \in Articles, b \in Bodies}

\* !article || !article.textContent || article.textContent.trim().length < 150
ReadabilityTooShort(article) ==
    \/ ~article.present
    \/ Length(article.textContent) = 0
    \/ Length(Trim(article.textContent)) < MinContent

\* bodyText && bodyText.length > 150, bodyText being the trimmed body text
BodyFallbackOk(body) ==
    /\ body.present
    /\ Length(Trim(body.textContent)) > 0
    /\ Length(Trim(body.textContent)) > MinContent

InsufficientContent ==
    [name |-> "Error", message |-> <<"Could not extract sufficient article content.">>]

\* the Readability block: the article text, or the error it throws
ExtractContent(d) ==
    IF ReadabilityTooShort(d.article)
    THEN IF BodyFallbackOk(d.body)
         THEN [ok |-> TRUE, text |-> Trim(d.body.textContent)]
         ELSE [ok |-> FALSE, error |-> InsufficientContent]
    ELSE [ok |-> TRUE, text |-> Trim(d.article.textContent)]

----------------------------------------------------------------------------
(* Step 1: metadata and images.  A URL is its protocol, host and path; the   *)
(* protocol "" marks a reference relative to the page, "bad" a string that   *)
(* new URL rejects.                                                          *)

MaxAdditionalImages == 10
MinDimension == 50

Url(protocol, host, path) == [protocol |-> protocol, host |-> host, path |-> path]

\* new URL(articleUrl) for the URLs of ValidUrls
UrlParts(u) ==
    IF u = UrlA THEN Url("http:", <<"a">>, "/1") ELSE Url("http:", <<"b">>, "/")

\* new URL(ref, articleUrl), defined when ref is not "bad"
Resolve(ref, base) ==
    IF ref.protocol = ""
    THEN Url(base.protocol, IF ref.host = <<>> THEN base.host ELSE ref.host, ref.path)
    ELSE ref

\* url.toString()
UrlString(u) == Str(<<u.protocol, "//">> \o u.host \o <<u.path>>)

\* ['http:', 'https:'].includes(urlObj.protocol)
IsHttp(u) == u.protocol \in {"http:", "https:"}

\* variant: whatever the content resolves to is taken
ScrapeImage_AnyScheme(og, base) ==
    IF og = Undef \/ og.protocol = "bad" THEN Null
    ELSE UrlString(Resolve(og, base))

\* scrapedImageUrl: the og:image content resolved against the page, or null
ScrapeImage(og, base) ==
    IF og = Undef \/ og.protocol = "bad" THEN Null
    ELSE IF IsHttp(Resolve(og, base)) THEN UrlString(Resolve(og, base))
    ELSE Null

\* '2024-05-01' and what toLocaleDateString('en-US', ...) makes of it
IsoDate == <<"2024", "-", "05", "-", "01">>
LongDate == <<"May", " ", "1", ",", " ", "2024">>
NotADate == <<"s", "o", "o", "n">>

\* !isNaN(new Date(s).getTime())
IsDate(s) == s = IsoDate

\* scrapedDate: the tag's content, formatted when it parses as a date
ScrapeDate(tag) ==
    IF ~Truthy(tag) THEN Null
    ELSE IF IsDate(tag.s) THEN Str(LongDate)
    ELSE tag

\* a JavaScript number: an integer or NaN
Number(n) == [nan |-> FALSE, n |-> n]
NaN == [nan |-> TRUE, n |-> 0]

\* parseInt(img.getAttribute(name) || '0'): the attribute is absent, a
\* string of digits (Num) or another string (Str)
ParseIntAttr(attr) ==
    IF ~Truthy(attr) /\ attr.t # "number" THEN Number(0)
    ELSE IF attr.t = "number" THEN Number(attr.n)
    ELSE NaN

\* x === k and x >= k: false of NaN
StrictEquals(x, k) == ~x.nan /\ x.n = k
AtLeast(x, k) == ~x.nan /\ x.n >= k

\* variant: one dimension of 0 is enough for the dimensions to count as unknown
IsLikelyContent_EitherZero(width, height) ==
    \/ (StrictEquals(width, 0) \/ StrictEquals(height, 0))
    \/ AtLeast(width, MinDimension)
    \/ AtLeast(height, MinDimension)

IsLikelyContent(width, height) ==
    \/ (StrictEquals(width, 0) /\ StrictEquals(height, 0))
    \/ AtLeast(width, MinDimension)
    \/ AtLeast(height, MinDimension)

\* imagesInContent.forEach(...): the URLs pushed, in order
RECURSIVE CollectImages(_, _, _, _)
CollectImages(imgs, base, seenUrls, out) ==
    IF imgs = <<>> THEN out
    ELSE LET img == Head(imgs)
             absoluteSrc == UrlString(Resolve(img.src, base))
         IN IF /\ img.src # Undef
               /\ img.src.protocol # "bad"
               /\ IsHttp(Resolve(img.src, base))
               /\ absoluteSrc \notin seenUrls
               /\ IsLikelyContent(ParseIntAttr(img.width), ParseIntAttr(img.height))
            THEN CollectImages(Tail(imgs), base, seenUrls \cup {absoluteSrc},
                               Append(out, absoluteSrc))
            ELSE CollectImages(Tail(imgs), base, seenUrls, out)

\* variant: the list is not cut
HarvestImages_NoLimit(imgs, primary, base) ==
    Arr(CollectImages(imgs, base, IF primary = Null THEN {} ELSE {primary}, <<>>))

\* additionalImageUrls
HarvestImages(imgs, primary, base) ==
    LET all == CollectImages(imgs, base, IF primary = Null THEN {} ELSE {primary}, <<>>)
    IN Arr(IF Len(all) > MaxAdditionalImages
           THEN SubSeq(all, 1, MaxAdditionalImages) ELSE all)

\* the handler's locals after the document was read; d has enough content
ScrapeLocals(d, url) ==
    LET base == UrlParts(url)
        primary == ScrapeImage(d.ogImage, base)
    IN [fetchedTitle |-> IF Truthy(d.title) THEN d.title ELSE Str(TitleNotFound),
        inferredSource |-> Str(base.host),
        author |-> Null,
        date |-> ScrapeDate(d.date),
        imageUrl |-> primary,
        imageUrls |-> IF ReadabilityTooShort(d.article) THEN Arr(<<>>)
                      ELSE HarvestImages(d.article.images, primary, base)]

----------------------------------------------------------------------------
(* Step 2: the prompt.  The template is fixed; the prompt is known by the   *)
(* hints and the article text put into it, and by whether the marker        *)
(* "\n[... content truncated ...]" follows the text.                        *)

MaxChars == 150000

NotFoundByScraper == Str(<<"Not found by scraper">>)

\* s.substring(0, n) of a trimmed text
Substring(s, n) == Text(0, IF s.len > n THEN n ELSE s.len)

\* variant: a text of exactly maxChars characters is cut as well
BuildPrompt_CutAtLimit(text, locals) ==
    [source |-> locals.inferredSource,
     title |-> locals.fetchedTitle,
     date |-> IF Truthy(locals.date) THEN locals.date ELSE NotFoundByScraper,
     author |-> IF Truthy(locals.author) THEN locals.author ELSE NotFoundByScraper,
     text |-> IF Length(text) >= MaxChars THEN Substring(text, MaxChars) ELSE text,
     marker |-> Length(text) >= MaxChars]

BuildPrompt(text, locals) ==
    [source |-> locals.inferredSource,
     title |-> locals.fetchedTitle,
     date |-> IF Truthy(locals.date) THEN locals.date ELSE NotFoundByScraper,
     author |-> IF Truthy(locals.author) THEN locals.author ELSE NotFoundByScraper,
     text |-> IF Length(text) > MaxChars THEN Substring(text, MaxChars) ELSE text,
     marker |-> Length(text) > MaxChars]

\* response.text() resolves: the document is parsed, metadata and content are
\* extracted, the prompt is built and the completion call is issued
BodyResolve(d) ==
    /\ pc = "readingBody"
    /\ doc' = d
    /\ LET x == ExtractContent(d)
       IN IF x.ok
          THEN /\ articleText' = x.text
               /\ scraped' = ScrapeLocals(d, originalUrl.s)
               /\ prompt' = BuildPrompt(x.text, ScrapeLocals(d, originalUrl.s))
               /\ trace' = trace \o <<"extract", "prompt", "complete">>
               /\ pc' = "calling"
               /\ UNCHANGED responses
          ELSE /\ Respond(InnerCatch(x.error))
               /\ trace' = Append(trace, "extract")
               /\ UNCHANGED <<articleText, scraped, prompt>>
    /\ UNCHANGED <<parked, helper, apiKey, reqBody, originalUrl, timer, aborted, upstream, reply>>

\* response.text() rejects (the connection breaks while the body is read)
BodyReject(err) ==
    /\ pc = "readingBody"
    /\ Respond(InnerCatch(err))
    /\ UNCHANGED <<prompt, parked, helper, apiKey, reqBody, originalUrl, timer, aborted, upstream, doc,
                   articleText, scraped, reply, trace>>

----------------------------------------------------------------------------
(* Helper to generate ids *)

\* String.prototype.toLowerCase on one character
Uppercase == <<"A", "B", "C", "D", "E", "F", "G", "H", "I", "J", "K", "L", "M",
               "N", "O", "P", "Q", "R", "S", "T", "U", "V", "W", "X", "Y", "Z">>
Lowercase == <<"a", "b", "c", "d", "e", "f", "g", "h", "i", "j", "k", "l", "m",
               "n", "o", "p", "q", "r", "s", "t", "u", "v", "w", "x", "y", "z">>
Digits == {"0", "1", "2", "3", "4", "5", "6", "7", "8", "9"}

LowerChar(c) ==
    IF \E i \in 1..Len(Uppercase) : Uppercase[i] = c
    THEN Lowercase[CHOOSE i \in 1..Len(Uppercase) : Uppercase[i] = c]
    ELSE c

\* \s
IsSpace(c) == c \in {" ", "\t", "\n"}

\* variant: the class also lets the exclamation mark through
IsWordOrHyphen_WithBang(c) ==
    \/ \E i \in 1..Len(Lowercase) : c \in {Lowercase[i], Uppercase[i]}
    \/ c \in Digits \cup {"_", "-", "!"}

\* [\w-]
IsWordOrHyphen(c) ==
    \/ \E i \in 1..Len(Lowercase) : c \in {Lowercase[i], Uppercase[i]}
    \/ c \in Digits \cup {"_", "-"}

RECURSIVE ToLowerCase(_)
ToLowerCase(s) ==
    IF s = <<>> THEN <<>> ELSE <<LowerChar(Head(s))>> \o ToLowerCase(Tail(s))

\* .replace(/\s+/g, '-')
RECURSIVE SpacesToHyphen(_)
SpacesToHyphen(s) ==
    IF s = <<>> THEN <<>>
    ELSE IF IsSpace(Head(s))
         THEN IF Len(s) > 1 /\ IsSpace(s[2])
              THEN SpacesToHyphen(Tail(s))
              ELSE <<"-">> \o SpacesToHyphen(Tail(s))
         ELSE <<Head(s)>> \o SpacesToHyphen(Tail(s))

\* .replace(/[^\w-]+/g, '')
StripNonWord(s) == SelectSeq(s, IsWordOrHyphen)

\* .replace(/--+/g, '-')
RECURSIVE CollapseHyphens(_)
CollapseHyphens(s) ==
    IF s = <<>> THEN <<>>
    ELSE IF Head(s) = "-" /\ Len(s) > 1 /\ s[2] = "-"
         THEN CollapseHyphens(Tail(s))
         ELSE <<Head(s)>> \o CollapseHyphens(Tail(s))

\* .replace(/^-+/, '')
RECURSIVE TrimLeadingHyphens(_)
TrimLeadingHyphens(s) ==
    IF s # <<>> /\ Head(s) = "-" THEN TrimLeadingHyphens(Tail(s)) ELSE s

\* .replace(/-+$/, '')
RECURSIVE TrimTrailingHyphens(_)
TrimTrailingHyphens(s) ==
    IF s # <<>> /\ s[Len(s)] = "-"
    THEN TrimTrailingHyphens(SubSeq(s, 1, Len(s) - 1))
    ELSE s

\* variant: the trailing hyphens are left in place
generateId_NoTrailingTrim(title) ==
    TrimLeadingHyphens(CollapseHyphens(StripNonWord(SpacesToHyphen(ToLowerCase(title)))))

generateId(title) ==
    TrimTrailingHyphens(TrimLeadingHyphens(CollapseHyphens(
        StripNonWord(SpacesToHyphen(ToLowerCase(title))))))

----------------------------------------------------------------------------
(* JSON cleanup *)

\* variant: the loop tests for a quote, escaped or not
HasEscapedQuote_AnyQuote(s) == \E i \in 1..Len(s) : s[i] = "'"

\* /\\'/.test(s)
HasEscapedQuote(s) == \E i \in 1..(Len(s) - 1) : s[i] = "\\" /\ s[i + 1] = "'"

\* s.replace(/\\'/g, "'"): one global pass, matches taken left to right
RECURSIVE ReplaceEscapedQuotes(_)
ReplaceEscapedQuotes(s) ==
    IF s = <<>> THEN <<>>
    ELSE IF Len(s) > 1 /\ s[1] = "\\" /\ s[2] = "'"
         THEN <<"'">> \o ReplaceEscapedQuotes(SubSeq(s, 3, Len(s)))
         ELSE <<Head(s)>> \o ReplaceEscapedQuotes(Tail(s))

\* while (/\\'/.test(cleaned)) cleaned = cleaned.replace(/\\'/g, "'")
RECURSIVE UnescapeQuotes(_)
UnescapeQuotes(s) ==
    IF HasEscapedQuote(s) THEN UnescapeQuotes(ReplaceEscapedQuotes(s)) ELSE s

\* s.replace(/(?<!\\)\\(\s)/g, '$1') from index i on: the lookbehind reads the
\* subject string, also where the previous match ended
RECURSIVE UnescapeSpacesFrom(_, _)
UnescapeSpacesFrom(s, i) ==
    IF i > Len(s) THEN <<>>
    ELSE IF /\ s[i] = "\\"
            /\ i < Len(s)
            /\ IsSpace(s[i + 1])
            /\ (i = 1 \/ s[i - 1] # "\\")
         THEN <<s[i + 1]>> \o UnescapeSpacesFrom(s, i + 2)
         ELSE <<s[i]>> \o UnescapeSpacesFrom(s, i + 1)

\* variant: the quote replacement runs once instead of until no match is left
cleanupJsonString_OnePass(rawJson) == UnescapeSpacesFrom(ReplaceEscapedQuotes(rawJson), 1)

cleanupJsonString(rawJson) == UnescapeSpacesFrom(UnescapeQuotes(rawJson), 1)

----------------------------------------------------------------------------
(* Steps 3 and 4: the completion reply and its recovery *)

\* rawJsonString.indexOf(c) and lastIndexOf(c), 1-based; 0 stands for -1
IndexOf(s, c) ==
    IF \E i \in 1..Len(s) : s[i] = c
    THEN CHOOSE i \in 1..Len(s) : s[i] = c /\ \A j \in 1..(i - 1) : s[j] # c
    ELSE 0

\* variant: the search for the last occurrence stops at the first one
LastIndexOf_First(s, c) ==
    IF \E i \in 1..Len(s) : s[i] = c
    THEN CHOOSE i \in 1..Len(s) : s[i] = c /\ \A j \in 1..(i - 1) : s[j] # c
    ELSE 0

LastIndexOf(s, c) ==
    IF \E i \in 1..Len(s) : s[i] = c
    THEN CHOOSE i \in 1..Len(s) : s[i] = c /\ \A j \in (i + 1)..Len(s) : s[j] # c
    ELSE 0

NoDelimiters ==
    <<"Analysis service response did not contain recognizable JSON object delimiters.">>

\* variant: the error thrown quotes the text that was searched
ExtractJson_QuotesText(rawJsonString) ==
    LET jsonStart == IndexOf(rawJsonString, "{")
        jsonEnd == LastIndexOf(rawJsonString, "}")
    IN IF jsonStart = 0 \/ jsonEnd = 0 \/ jsonEnd < jsonStart
       THEN [ok |-> FALSE, message |-> NoDelimiters \o rawJsonString]
       ELSE [ok |-> TRUE, text |-> SubSeq(rawJsonString, jsonStart, jsonEnd)]

\* the delimiter search: the extracted substring, or the error thrown
ExtractJson(rawJsonString) ==
    LET jsonStart == IndexOf(rawJsonString, "{")
        jsonEnd == LastIndexOf(rawJsonString, "}")
    IN IF jsonStart = 0 \/ jsonEnd = 0 \/ jsonEnd < jsonStart
       THEN [ok |-> FALSE, message |-> NoDelimiters]
       ELSE [ok |-> TRUE, text |-> SubSeq(rawJsonString, jsonStart, jsonEnd)]

\* catch (parseError): the Error rethrown to the outer catch
ParseCatch(message) ==
    <<"Analysis service response was not valid JSON.">>
    \o (IF Contains(message, "position")
        THEN message
        ELSE <<"Failed to process the analysis service response (JSON parse error):">>
             \o message)

EmptyCompletion ==
    <<"Received an unexpected or empty response from the analysis service.">>

\* variant: total is not checked
ScoreIsValid_NoTotal(score) ==
    /\ IsNumber(Get(score, "s"))
    /\ IsNumber(Get(score, "p"))
    /\ IsNumber(Get(score, "i"))
    /\ IsNumber(Get(score, "c"))
    /\ IsNumber(Get(score, "e"))
    /\ Truthy(Get(score, "justifications"))

\* the engagement-score check made on the parsed object
ScoreIsValid(score) ==
    /\ IsNumber(Get(score, "total"))
    /\ IsNumber(Get(score, "s"))
    /\ IsNumber(Get(score, "p"))
    /\ IsNumber(Get(score, "i"))
    /\ IsNumber(Get(score, "c"))
    /\ IsNumber(Get(score, "e"))
    /\ Truthy(Get(score, "justifications"))

\* parsedData.spiceScore after the validation block
ValidateScore(score) ==
    IF Truthy(score) THEN (IF ScoreIsValid(score) THEN score ELSE Null) ELSE score

\* the spiceScore field of storyData
AssembleScore(score) ==
    IF Truthy(score)
    THEN Obj([s |-> Get(score, "s"), p |-> Get(score, "p"), i |-> Get(score, "i"),
              c |-> Get(score, "c"), e |-> Get(score, "e"),
              total |-> Get(score, "total")])
    ELSE Null

\* generateId(section.title) throws a TypeError unless the title is a string
SectionThrows(section) == section.t = "null" \/ ~IsString(Get(section, "title"))

\* ({ ...section, id: generateId(section.title) })
AssembleSection(section) ==
    Obj([title |-> Get(section, "title"), content |-> Get(section, "content"),
         id |-> Str(generateId(Get(section, "title").s))])

\* variant: sections with an id already seen are left out
AssembleSections_Dedup(fs) ==
    IF IsArray(fs)
    THEN LET all == [k \in 1..Len(fs.a) |-> AssembleSection(fs.a[k])]
             first(k) == \A j \in 1..(k - 1) : all[j].o.id # all[k].o.id
             RECURSIVE keep(_)
             keep(k) == IF k > Len(all) THEN <<>>
                        ELSE (IF first(k) THEN <<all[k]>> ELSE <<>>) \o keep(k + 1)
         IN Arr(keep(1))
    ELSE Arr(<<>>)

\* the factSections field of storyData; defined when no section throws
AssembleSections(fs) ==
    IF IsArray(fs)
    THEN Arr([k \in 1..Len(fs.a) |-> AssembleSection(fs.a[k])])
    ELSE Arr(<<>>)

AssemblyThrows(fs) ==
    IsArray(fs) /\ \E k \in 1..Len(fs.a) : SectionThrows(fs.a[k])

\* quote.replace(/^"|"$/g, ''): a double quote at the start and one at the end
StripQuoteMarks(s) ==
    LET rest == IF s # <<>> /\ Head(s) = "\"" THEN Tail(s) ELSE s
    IN IF rest # <<>> /\ rest[Len(rest)] = "\"" THEN SubSeq(rest, 1, Len(rest) - 1)
       ELSE rest

\* quote.replace of an element that is not a string throws a TypeError
QuotesThrow(q) == IsArray(q) /\ \E k \in 1..Len(q.a) : ~IsString(q.a[k])

\* variant: the quotes are copied without the Array.isArray test
AssembleQuotes_Unchecked(q) == q

\* the quotes field of storyData; defined when no quote throws
AssembleQuotes(q) ==
    IF IsArray(q)
    THEN Arr([k \in 1..Len(q.a) |-> Str(StripQuoteMarks(q.a[k].s))])
    ELSE Arr(<<>>)

\* x || y
OrElse(x, y) == IF Truthy(x) THEN x ELSE y

\* step 5: storyData
StoryData(parsedData, locals, url) ==
    [title |-> OrElse(Get(parsedData, "title"), locals.fetchedTitle),
     source |-> OrElse(Get(parsedData, "source"), locals.inferredSource),
     author |-> locals.author,
     date |-> Get(parsedData, "date"),
     summary |-> Get(parsedData, "summary"),
     highlights |-> IF IsArray(Get(parsedData, "highlights"))
                    THEN Get(parsedData, "highlights") ELSE Arr(<<>>),
     imageUrl |-> locals.imageUrl,
     imageUrls |-> locals.imageUrls,
     originalUrl |-> url,
     factSections |-> AssembleSections(Get(parsedData, "factSections")),
     quotes |-> AssembleQuotes(Get(parsedData, "quotes")),
     spiceScore |-> AssembleScore(ValidateScore(Get(parsedData, "spiceScore")))]

\* NextResponse.json(data): JSON.stringify leaves out the undefined properties
Serialize(data) == [k \in {f \in DOMAIN data : data[f] # Undef} |-> data[k]]

\* variant: a reply counts as usable when any of its segments is a text
UnusableReply_NoTextAtAll(content) ==
    ~\E k \in 1..Len(content) : content[k].type = "text" /\ content[k].text # <<>>

\* !content || content.length === 0 || content[0].type !== 'text' || !content[0].text
UnusableReply(content) ==
    \/ content = <<>>
    \/ content[1].type # "text"
    \/ content[1].text = <<>>

\* variant: sections that cannot be given an id are left out, as an invalid
\* score is
Recover_SectionsDegrade(r, locals, url) ==
    IF UnusableReply(r.content)
    THEN [stages |-> <<>>, response |-> OuterCatch(EmptyCompletion)]
    ELSE LET x == ExtractJson(r.content[1].text)
         IN IF ~x.ok
            THEN [stages |-> <<"recover">>,
                  response |-> OuterCatch(ParseCatch(x.message))]
            ELSE IF ~r.parse.ok
            THEN [stages |-> <<"recover">>,
                  response |-> OuterCatch(ParseCatch(r.parse.message))]
            ELSE IF QuotesThrow(Get(r.parse.value, "quotes"))
            THEN [stages |-> <<"recover", "validateScore", "assemble">>,
                  response |-> OuterCatch(<<"Cannot read properties of undefined">>)]
            ELSE IF AssemblyThrows(Get(r.parse.value, "factSections"))
            THEN [stages |-> <<"recover", "validateScore", "assemble">>,
                  response |-> [status |-> 200,
                                body |-> Serialize(StoryData(
                                    [r.parse.value EXCEPT !.o.factSections = Undef],
                                    locals, url))]]
            ELSE [stages |-> <<"recover", "validateScore", "assemble">>,
                  response |-> [status |-> 200,
                                body |-> Serialize(StoryData(r.parse.value,
                                                             locals, url))]]

\* the handler from the resolution of the completion call to its response
Recover(r, locals, url) ==
    IF UnusableReply(r.content)
    THEN [stages |-> <<>>, response |-> OuterCatch(EmptyCompletion)]
    ELSE LET x == ExtractJson(r.content[1].text)
         IN IF ~x.ok
            THEN [stages |-> <<"recover">>,
                  response |-> OuterCatch(ParseCatch(x.message))]
            ELSE IF ~r.parse.ok
            THEN [stages |-> <<"recover">>,
                  response |-> OuterCatch(ParseCatch(r.parse.message))]
            ELSE IF \/ AssemblyThrows(Get(r.parse.value, "factSections"))
                    \/ QuotesThrow(Get(r.parse.value, "quotes"))
            THEN [stages |-> <<"recover", "validateScore", "assemble">>,
                  response |-> OuterCatch(<<"Cannot read properties of undefined">>)]
            ELSE [stages |-> <<"recover", "validateScore", "assemble">>,
                  response |-> [status |-> 200,
                                body |-> Serialize(StoryData(r.parse.value,
                                                             locals, url))]]

----------------------------------------------------------------------------
(* Replies of the completion service *)

TitleA == <<"A", " ", "b", "!">>
TitleB == <<"-", "c", "_", "1">>

SectionValues ==
    {Null}
    \cup {Obj([title |-> t, content |-> Str(<<"c">>)]) :
            t \in {Undef, Num(3), Str(TitleA), Str(TitleB)}}

SectionLists == UNION {[1..n -> SectionValues] : n \in 0..MaxSections}

FactSectionsValues == {Undef, Str(<<"x">>)} \cup {Arr(l) : l \in SectionLists}

FirstDimValues == {Undef, Str(<<"1">>), Num(1), Num(6)}
DimValues == {Undef, Num(1)}
TotalValues == {Undef, Str(<<"5">>), Num(5), Num(10)}
Justifications == Obj([scannability |-> Str(<<"j">>)])

ScoreObjects ==
    {Obj([s |-> s, p |-> p, i |-> i, c |-> c, e |-> e, total |-> total,
          justifications |-> j]) :
        s \in FirstDimValues, p \in DimValues, i \in DimValues, c \in DimValues,
        e \in DimValues, total \in TotalValues, j \in {Undef, Justifications}}

ScoreValues == {Undef, Null, Str(<<"x">>)} \cup ScoreObjects

GoodScore ==
    Obj([s |-> Num(1), p |-> Num(1), i |-> Num(1), c |-> Num(1), e |-> Num(1),
         total |-> Num(5), justifications |-> Justifications])

Parsed(title, date, summary, factSections, spiceScore) ==
    Obj([title |-> title, source |-> Str(<<"s">>), date |-> date,
         summary |-> summary, highlights |-> Arr(<<Str(<<"h">>)>>),
         factSections |-> factSections, spiceScore |-> spiceScore])

\* what the completion may put where a list is expected
HighlightsValues == {Undef, Null, Str(<<"h">>), Arr(<<Str(<<"h">>)>>)}
QuotesValues == {Undef, Null, Num(0), Arr(<<Str(<<"\"", "q", "\"">>)>>)}
ListlessSections == {Undef, Str(<<"x">>), Arr(<<>>)}

ParsedLists(highlights, factSections, quotes) ==
    Obj([title |-> Str(<<"t">>), source |-> Str(<<"s">>), date |-> Str(<<"d">>),
         summary |-> Str(<<"m">>), highlights |-> highlights,
         factSections |-> factSections, quotes |-> quotes, spiceScore |-> GoodScore])

\* the objects JSON.parse may yield: every choice of the scalar fields, every
\* list of sections, every score, and every choice of the three lists
ParsedObjects ==
    {Parsed(t, d, sm, Arr(<<>>), GoodScore) :
        t \in {Undef, Str(<<"t">>)}, d \in {Undef, Str(<<"d">>)},
        sm \in {Undef, Str(<<"m">>)}}
    \cup {Parsed(Str(<<"t">>), Str(<<"d">>), Str(<<"m">>), fs, GoodScore) :
            fs \in FactSectionsValues}
    \cup {Parsed(Str(<<"t">>), Str(<<"d">>), Str(<<"m">>),
                 Arr(<<Obj([title |-> Str(TitleA), content |-> Str(<<"c">>)])>>), sc) :
            sc \in ScoreValues}
    \cup {ParsedLists(h, fs, q) :
            h \in HighlightsValues, fs \in ListlessSections, q \in QuotesValues}

SyntaxErrors ==
    {<<"Unexpected token", "p", "in JSON at", "position", "1">>,
     <<"Unexpected end of JSON input">>}

\* the characters of a completion text: "p" is any character of the prose
\* or of the payload other than a brace
CompletionTexts ==
    {<<>>, <<"p">>, <<"{">>, <<"}">>, <<"}", "p", "{">>,
     <<"{", "p", "}">>, <<"p", "{", "p", "}", "p">>}

WellFormedText == <<"{", "p", "}">>

ToolSegment == [type |-> "tool_use", text |-> <<>>]
TextSegment(s) == [type |-> "text", text |-> s]

\* a reply: the output segments, and what JSON.parse yields for the cleaned
\* substring between the delimiters of the first segment
CompletionReplies ==
    {[content |-> c, parse |-> [ok |-> FALSE, message |-> m]] :
        c \in {<<>>, <<ToolSegment>>, <<ToolSegment, TextSegment(WellFormedText)>>}
              \cup {<<TextSegment(s)>> : s \in CompletionTexts},
        m \in SyntaxErrors}
    \cup {[content |-> c, parse |-> [ok |-> TRUE, value |-> o]] :
            c \in {<<TextSegment(WellFormedText)>>,
                   <<TextSegment(<<"p", "{", "p", "}", "p">>)>>,
                   <<ToolSegment, TextSegment(WellFormedText)>>,
                   <<TextSegment(WellFormedText), ToolSegment>>},
            o \in {Parsed(Str(<<"t">>), Str(<<"d">>), Str(<<"m">>), Arr(<<>>), Null)}}
    \cup {[content |-> <<TextSegment(WellFormedText)>>,
           parse |-> [ok |-> TRUE, value |-> o]] : o \in ParsedObjects}

\* errors of the completion call
ApiErrors == {<<"401 authentication_error">>, <<"529 overloaded_error">>}

\* the completion call resolves: steps 4 to 6
ClaudeResolve(r) ==
    /\ pc = "calling"
    /\ reply' = r
    /\ LET out == Recover(r, scraped, originalUrl)
       IN /\ Respond(out.response)
          /\ trace' = trace \o out.stages
    /\ UNCHANGED <<prompt, parked, helper, apiKey, reqBody, originalUrl, timer, aborted, upstream, doc,
                   articleText, scraped>>

\* the completion call rejects
ClaudeReject(message) ==
    /\ pc = "calling"
    /\ Respond(OuterCatch(message))
    /\ UNCHANGED <<prompt, parked, helper, apiKey, reqBody, originalUrl, timer, aborted, upstream, doc,
                   articleText, scraped, reply, trace>>

----------------------------------------------------------------------------
(* The state before POST is called *)

NoDoc == [article |-> [present |-> FALSE, textContent |-> EmptyText, images |-> <<>>],
          body |-> [present |-> FALSE, textContent |-> EmptyText],
          title |-> Undef, ogImage |-> Undef, date |-> Undef]

NoLocals == [fetchedTitle |-> Str(<<>>), inferredSource |-> Str(<<>>),
             author |-> Null, date |-> Null, imageUrl |-> Null,
             imageUrls |-> Arr(<<>>)]

NoReply == [content |-> <<>>, parse |-> [ok |-> FALSE, message |-> <<>>]]

NoPrompt == [source |-> Str(<<>>), title |-> Str(<<>>), date |-> Str(<<>>),
             author |-> Str(<<>>), text |-> EmptyText, marker |-> FALSE]

NoCall == [fn |-> "none", input |-> <<>>, once |-> <<>>, twice |-> <<>>, calls |-> 0]

\* an invocation that has not started
NotStarted(id) ==
    [id |-> id, pc |-> "idle", reqBody |-> [json |-> FALSE, value |-> Undef],
     originalUrl |-> Str(<<>>), timer |-> "unset", aborted |-> FALSE, upstream |-> 0,
     doc |-> NoDoc, articleText |-> EmptyText, scraped |-> NoLocals,
     reply |-> NoReply, trace |-> <<>>, responses |-> <<>>, prompt |-> NoPrompt]

Idle ==
    /\ parked = NotStarted(2)
    /\ prompt = NoPrompt
    /\ pc = "idle"
    /\ reqBody = [json |-> FALSE, value |-> Undef]
    /\ originalUrl = Str(<<>>)
    /\ timer = "unset"
    /\ aborted = FALSE
    /\ upstream = 0
    /\ doc = NoDoc
    /\ articleText = EmptyText
    /\ scraped = NoLocals
    /\ reply = NoReply
    /\ trace = <<>>
    /\ responses = <<>>

Init ==
    /\ apiKey \in BOOLEAN
    /\ Idle
    /\ helper = NoCall

Next ==
    \/ \E b \in RequestBodies : PostStart(b)
    \/ BodyParsed
    \/ \E s \in UpstreamStatuses : FetchResolve(s)
    \/ \E e \in NetworkErrors : FetchReject(e)
    \/ TimerFire
    \/ \E d \in Docs : BodyResolve(d)
    \/ \E e \in NetworkErrors : BodyReject(e)
    \/ \E r \in CompletionReplies : ClaudeResolve(r)
    \/ \E m \in ApiErrors : ClaudeReject(m)

Spec == Init /\ [][Next]_vars

\* the handler with its deadline: a timer that is set and not cleared fires;
\* the network and the completion service owe no answer
SpecDeadline == Init /\ [][Next]_vars /\ WF_vars(TimerFire)

----------------------------------------------------------------------------
(* The handler on pages with metadata and images: requests with a valid URL,
   pages with enough article text, and the completions that matter to what is
   copied from the page into the record. *)

MaxImgTags == 12      \* most <img> tags in the content of an article

Img(src, width, height) == [src |-> src, width |-> width, height |-> height]

\* the k-th plain image of a page: an absolute URL of its own, no dimensions
PlainImg(k) == Img(Url("https:", <<"c">>, ToString(k)), Undef, Undef)
PlainImgs(n) == [k \in 1..n |-> PlainImg(k)]

OgUrl == Url("https:", <<"c">>, "og")

\* images that differ from the plain ones: a repeat of the first one, the
\* primary image, a relative reference, other protocols, a string that is no
\* URL, no src, and declared dimensions below and at the minimum
OddImgs ==
    {PlainImg(1),
     Img(OgUrl, Undef, Undef),
     Img(Url("", <<>>, "r"), Undef, Undef),
     Img(Url("ftp:", <<"c">>, "f"), Undef, Undef),
     Img(Url("data:", <<>>, "d"), Undef, Undef),
     Img(Url("bad", <<>>, ""), Undef, Undef),
     Img(Undef, Undef, Undef),
     Img(Url("https:", <<"c">>, "s"), Num(MinDimension - 1), Num(MinDimension - 1)),
     Img(Url("https:", <<"c">>, "b"), Num(MinDimension), Undef)}

\* width and height attributes: absent, "0", below and at the minimum, and
\* a value that is no number
DimAttrs == {Undef, Num(0), Num(MinDimension - 1), Num(MinDimension), Str(<<"auto">>)}

SizedImgs == {Img(Url("https:", <<"c">>, "z"), w, h) : w, h \in DimAttrs}

InsertAt(l, p, x) == SubSeq(l, 1, p - 1) \o <<x>> \o SubSeq(l, p, Len(l))

\* a small and then a large image with one URL
SmallThenLarge ==
    <<Img(Url("https:", <<"c">>, "s"), Num(1), Num(1)),
      Img(Url("https:", <<"c">>, "s"), Num(MinDimension), Num(MinDimension))>>

ImageLists ==
    {PlainImgs(n) : n \in 0..MaxImgTags}
    \cup UNION {{InsertAt(PlainImgs(n), p, x) : p \in 1..(n + 1), x \in OddImgs} :
                  n \in 0..(MaxImgTags - 1)}
    \cup {SmallThenLarge}
    \cup UNION {{InsertAt(PlainImgs(n), p, x) : p \in 1..(n + 1), x \in SizedImgs} :
                  n \in 0..1}

Readable == [present |-> TRUE, textContent |-> Text(0, MinContent), images |-> <<>>]
Unreadable == [present |-> TRUE, textContent |-> Text(0, MinContent - 1), images |-> <<>>]
LongBody == [present |-> TRUE, textContent |-> Text(0, MinContent + 1)]

OgValues ==
    {Undef, OgUrl, Url("http:", <<"c">>, "og"), Url("", <<>>, "og"),
     Url("", <<"d">>, "og"), Url("ftp:", <<"c">>, "og"), Url("data:", <<>>, "og"),
     Url("bad", <<>>, "")}

DateTagValues == {Undef, Str(<<>>), Str(IsoDate), Str(NotADate)}

ScrapeDocs ==
    {[article |-> [Readable EXCEPT !.images = l], body |-> LongBody,
      title |-> Str(PageTitle), ogImage |-> og, date |-> Undef] :
        l \in ImageLists, og \in {Undef, OgUrl}}
    \cup {[article |-> [Readable EXCEPT !.images = <<>>], body |-> LongBody,
           title |-> Str(PageTitle), ogImage |-> og, date |-> dt] :
            og \in OgValues, dt \in DateTagValues}
    \cup {[article |-> [Unreadable EXCEPT !.images = PlainImgs(2)], body |-> LongBody,
           title |-> Str(PageTitle), ogImage |-> OgUrl, date |-> Str(IsoDate)]}
    \cup {[article |-> [Readable EXCEPT !.textContent = Text(p, n)], body |-> LongBody,
           title |-> Str(PageTitle), ogImage |-> Undef, date |-> dt] :
            p \in 0..MaxPad, n \in (MaxChars - 1)..(MaxChars + 1),
            dt \in {Undef, Str(IsoDate)}}

ScrapeBodies == {[json |-> TRUE, value |-> Obj([articleUrl |-> Str(u)])] : u \in ValidUrls}

ScrapeReplies ==
    {[content |-> <<TextSegment(WellFormedText)>>,
      parse |-> [ok |-> TRUE,
                 value |-> Parsed(Str(<<"t">>), d, Str(<<"m">>), Arr(<<>>), GoodScore)]] :
        d \in {Undef, Str(<<>>), Str(<<"d">>)}}
    \cup {[content |-> <<TextSegment(<<"p">>)>>,
           parse |-> [ok |-> FALSE, message |-> <<"Unexpected end of JSON input">>]]}

NextScrape ==
    \/ \E b \in ScrapeBodies : PostStart(b)
    \/ BodyParsed
    \/ FetchResolve(200)
    \/ \E e \in NetworkErrors : FetchReject(e)
    \/ TimerFire
    \/ \E d \in ScrapeDocs : BodyResolve(d)
    \/ \E e \in NetworkErrors : BodyReject(e)
    \/ \E r \in ScrapeReplies : ClaudeResolve(r)
    \/ \E m \in ApiErrors : ClaudeReject(m)

SpecScrape == Init /\ [][NextScrape]_vars

----------------------------------------------------------------------------
(* Two requests in flight.  Every local of POST belongs to one invocation; the
   event loop runs one invocation at a time and may resume the other one
   whenever the running one is at an await or has returned. *)

\* the locals of the running invocation
Running ==
    [id |-> 3 - parked.id, pc |-> pc, reqBody |-> reqBody, originalUrl |-> originalUrl,
     timer |-> timer, aborted |-> aborted, upstream |-> upstream, doc |-> doc,
     articleText |-> articleText, scraped |-> scraped, reply |-> reply,
     trace |-> trace, responses |-> responses, prompt |-> prompt]

\* variant: originalUrl is declared at module level, one for all invocations
ResumedUrl_ModuleLevel == originalUrl

\* originalUrl as the resumed invocation sees it: its own `let originalUrl`
ResumedUrl == parked.originalUrl

\* the event loop resumes the other invocation
Switch ==
    /\ pc' = parked.pc
    /\ reqBody' = parked.reqBody
    /\ originalUrl' = ResumedUrl
    /\ timer' = parked.timer
    /\ aborted' = parked.aborted
    /\ upstream' = parked.upstream
    /\ doc' = parked.doc
    /\ articleText' = parked.articleText
    /\ scraped' = parked.scraped
    /\ reply' = parked.reply
    /\ trace' = parked.trace
    /\ responses' = parked.responses
    /\ prompt' = parked.prompt
    /\ parked' = Running
    /\ UNCHANGED <<apiKey, helper>>

InvalidBody == [json |-> TRUE, value |-> Obj([articleUrl |-> Str(NotAUrl)])]

PlainDoc == [article |-> Readable, body |-> LongBody, title |-> Str(PageTitle),
             ogImage |-> Undef, date |-> Undef]
RichDoc == [article |-> [Readable EXCEPT !.images = PlainImgs(2)], body |-> LongBody,
            title |-> Undef, ogImage |-> Url("", <<>>, "og"), date |-> Str(IsoDate)]
ShortDoc == [article |-> Unreadable, body |-> [present |-> FALSE, textContent |-> EmptyText],
             title |-> Str(PageTitle), ogImage |-> Undef, date |-> Undef]

SectionOf(title) == Obj([title |-> Str(title), content |-> Str(<<"c">>)])

PairReplies ==
    {[content |-> <<TextSegment(WellFormedText)>>,
      parse |-> [ok |-> TRUE,
                 value |-> Parsed(Undef, Str(<<"d">>), Str(<<"m">>),
                                  Arr(<<SectionOf(TitleA)>>), GoodScore)]],
     [content |-> <<TextSegment(WellFormedText)>>,
      parse |-> [ok |-> TRUE,
                 value |-> Parsed(Str(<<"t">>), Undef, Str(<<"m">>),
                                  Arr(<<SectionOf(TitleB)>>), Null)]],
     [content |-> <<TextSegment(WellFormedText)>>,
      parse |-> [ok |-> FALSE, message |-> <<"Unexpected end of JSON input">>]]}

NextPair ==
    \/ \E b \in ScrapeBodies \cup {InvalidBody} : PostStart(b)
    \/ BodyParsed
    \/ \E s \in {200, 404} : FetchResolve(s)
    \/ \E e \in NetworkErrors : FetchReject(e)
    \/ TimerFire
    \/ \E d \in {PlainDoc, RichDoc, ShortDoc} : BodyResolve(d)
    \/ \E e \in NetworkErrors : BodyReject(e)
    \/ \E r \in PairReplies : ClaudeResolve(r)
    \/ \E m \in ApiErrors : ClaudeReject(m)
    \/ Switch

SpecPair == Init /\ [][NextPair]_vars

----------------------------------------------------------------------------
(* Direct calls of the helper functions.  cleanupJsonString and generateId are
   pure: each is called on an input of its own, and a second time on its own
   result, apart from any request. *)

MaxTextLen == 4       \* longest text handed to cleanupJsonString
MaxTitleLen == 4      \* longest section title handed to generateId

SeqsUpTo(S, n) == UNION {[1..k -> S] : k \in 0..n}

Call(fn, input) == [fn |-> fn, input |-> input, once |-> <<>>, twice |-> <<>>, calls |-> 0]

\* the characters between the double quotes of one string of the completion
\* text: a backslash, a single quote, a blank and a letter
CleanupChars == {"\\", "'", " ", "n"}
CleanupInputs == SeqsUpTo(CleanupChars, MaxTextLen)

CallCleanup ==
    /\ helper.fn = "cleanupJsonString"
    /\ helper.calls = 0
    /\ helper' = [helper EXCEPT !.once = cleanupJsonString(helper.input), !.calls = 1]
    /\ UNCHANGED handlerVars

CallCleanupAgain ==
    /\ helper.fn = "cleanupJsonString"
    /\ helper.calls = 1
    /\ helper' = [helper EXCEPT !.twice = cleanupJsonString(helper.once), !.calls = 2]
    /\ UNCHANGED handlerVars

InitCleanup ==
    /\ apiKey = TRUE
    /\ Idle
    /\ helper \in {Call("cleanupJsonString", s) : s \in CleanupInputs}

NextCleanup == CallCleanup \/ CallCleanupAgain

SpecCleanup == InitCleanup /\ [][NextCleanup]_vars

\* 'Rose Development: Details!'
RoseTitle == <<"R", "o", "s", "e", " ", "D", "e", "v", "e", "l", "o", "p", "m", "e",
               "n", "t", ":", " ", "D", "e", "t", "a", "i", "l", "s", "!">>

TitleChars == {"A", "b", " ", "-", "!", "_"}
TitleInputs == SeqsUpTo(TitleChars, MaxTitleLen) \cup {RoseTitle}

CallGenerateId ==
    /\ helper.fn = "generateId"
    /\ helper.calls = 0
    /\ helper' = [helper EXCEPT !.once = generateId(helper.input), !.calls = 1]
    /\ UNCHANGED handlerVars

CallGenerateIdAgain ==
    /\ helper.fn = "generateId"
    /\ helper.calls = 1
    /\ helper' = [helper EXCEPT !.twice = generateId(helper.once), !.calls = 2]
    /\ UNCHANGED handlerVars

InitId ==
    /\ apiKey = TRUE
    /\ Idle
    /\ helper \in {Call("generateId", t) : t \in TitleInputs}

NextId == CallGenerateId \/ CallGenerateIdAgain

SpecId == InitId /\ [][NextId]_vars

(* The loop of cleanupJsonString, pass by pass *)

MaxPasses == 4        \* passes after which the model stops following the loop

LoopCall(s) == [fn |-> "quoteLoop", input |-> s, cleaned |-> s, passes |-> 0, done |-> FALSE]

\* variant: the replacement puts the backslash back
QuoteReplace_Same(cleaned) == cleaned

\* cleaned.replace(/\\'/g, "'")
QuoteReplace(cleaned) == ReplaceEscapedQuotes(cleaned)

\* the test of the while holds: one more pass
QuotePass ==
    /\ helper.fn = "quoteLoop"
    /\ ~helper.done
    /\ HasEscapedQuote(helper.cleaned)
    /\ helper.passes < MaxPasses
    /\ helper' = [helper EXCEPT !.cleaned = QuoteReplace(helper.cleaned),
                                !.passes = helper.passes + 1]
    /\ UNCHANGED handlerVars

\* the test of the while fails: the loop is left
LoopExit ==
    /\ helper.fn = "quoteLoop"
    /\ ~helper.done
    /\ ~HasEscapedQuote(helper.cleaned)
    /\ helper' = [helper EXCEPT !.done = TRUE]
    /\ UNCHANGED handlerVars

InitLoop ==
    /\ apiKey = TRUE
    /\ Idle
    /\ helper \in {LoopCall(s) : s \in CleanupInputs}

NextLoop == QuotePass \/ LoopExit

\* the loop is synchronous code: it keeps running until it is left
SpecLoop == InitLoop /\ [][NextLoop]_vars /\ WF_vars(NextLoop)

(* The delimiter search of step 4 on a completion text of its own: the text
   is the first segment of a reply whose extracted substring parses. *)

MaxRawLen == 5        \* longest completion text searched for delimiters

RawTexts == SeqsUpTo({"{", "}", "p"}, MaxRawLen) \ {<<>>}

ParsingReply(text) ==
    [content |-> <<TextSegment(text)>>,
     parse |-> [ok |-> TRUE,
                value |-> Parsed(Str(<<"t">>), Str(<<"d">>), Str(<<"m">>), Arr(<<>>), Null)]]

CallRecover ==
    /\ helper.fn = "recover"
    /\ helper.calls = 0
    /\ helper' = [helper EXCEPT
                     !.once = ExtractJson(helper.input),
                     !.twice = Recover(ParsingReply(helper.input), NoLocals,
                                       Str(UrlA)).response,
                     !.calls = 1]
    /\ UNCHANGED handlerVars

InitRecover ==
    /\ apiKey = TRUE
    /\ Idle
    /\ helper \in {Call("recover", t) : t \in RawTexts}

SpecRecover == InitRecover /\ [][CallRecover]_vars

----------------------------------------------------------------------------
(* Properties *)

Responded == Len(responses) >= 1
Response == responses[1]
Ran(stage) == Contains(trace, stage)

\* C1: when the page fetch returned a status outside 200..299, the request
\* ends in an error response (never 200), no completion call is made, and the
\* error message carries the upstream status code, with access-denied wording
\* for 403 and not-found wording for 404.
C1_NonOkUpstreamFails ==
    (upstream # 0 /\ (upstream < 200 \/ upstream > 299)) =>
        /\ pc = "done"
        /\ Len(responses) = 1
        /\ Response.status # 200
        /\ DOMAIN Response.body = {"error"}
        /\ ~Ran("complete")
        /\ Contains(Response.body.error, ToString(upstream))
        /\ (upstream = 403 => Contains(Response.body.error, "Access denied"))
        /\ (upstream = 404 => Contains(Response.body.error, "Not Found"))

C1_Witness ==
    /\ upstream = 403
    /\ Responded
    /\ Response.status = 500
    /\ Contains(Response.body.error, "Access denied")

\* C2: when the source site answers the page fetch with 403 or 404, the
\* response of POST has that same status.
C2_UpstreamStatusPassedThrough ==
    (upstream \in {403, 404} /\ Responded) => Response.status = upstream

\* C3: a deadline that fires while the fetch is pending cancels it and ends
\* the request with status 504 and the timeout message, with no extraction
\* and no completion call; and a 504 response is produced by no other step.
C3_TimeoutIs504 ==
    [][LET fires == timer = "pending" /\ timer' = "fired" /\ pc = "fetching"
       IN /\ fires =>
               /\ aborted'
               /\ pc' = "done"
               /\ responses' = <<ErrorResponse(TimeoutMessage, 504)>>
               /\ trace' = <<"config", "body", "validate", "fetch">>
          /\ (/\ responses' # responses
              /\ responses'[Len(responses')].status = 504) => fires]_vars

C3_Witness ==
    /\ timer = "fired"
    /\ upstream = 0
    /\ responses = <<ErrorResponse(TimeoutMessage, 504)>>

\* C4: extraction fails with the insufficient-content error exactly when the
\* Readability result is absent or its trimmed text is shorter than 150 AND
\* the trimmed body text is shorter than 150 (a body text of exactly 150
\* characters is accepted); on failure the response carries no record.
C4_InsufficientIffBothShort ==
    Ran("extract") =>
        LET readabilityShort ==
                \/ ~doc.article.present
                \/ doc.article.textContent.len < MinContent
            bodyShort ==
                \/ ~doc.body.present
                \/ doc.body.textContent.len < MinContent
            failed ==
                /\ ~Ran("prompt")
                /\ responses = <<ErrorResponse(InsufficientContent.message, 500)>>
        IN /\ failed <=> (readabilityShort /\ bodyShort)
           /\ ~failed => Ran("prompt")

\* the articleUrl of a parsed, non-null body is missing, empty, not a string
\* or not parseable as a URL
BadArticleUrl ==
    /\ reqBody.json
    /\ reqBody.value.t # "null"
    /\ LET u == Get(reqBody.value, "articleUrl")
       IN u.t # "string" \/ u.s = <<>> \/ u.s \notin ValidUrls

AnsweredWith400 ==
    /\ Len(responses) = 1
    /\ Response.status = 400
    /\ DOMAIN Response.body = {"error"}
    /\ ~Ran("fetch")
    /\ ~Ran("complete")
    /\ timer = "unset"

C6_MissingKeyIsFatalAndFirst ==
    /\ trace # <<>> => trace[1] = "config"
    /\ (~apiKey /\ pc # "idle") =>
            /\ pc = "done"
            /\ trace = <<"config">>
            /\ timer = "unset"
            /\ responses = <<ErrorResponse(ConfigErrorMessage, 500)>>

C6_Witness ==
    /\ ~apiKey
    /\ reqBody.json
    /\ Get(reqBody.value, "articleUrl") = Str(UrlA)
    /\ responses = <<ErrorResponse(ConfigErrorMessage, 500)>>

\* the fields of a record that are set whatever the completion returned
RecordKeys ==
    {"title", "source", "author", "highlights", "imageUrl", "imageUrls",
     "originalUrl", "factSections", "spiceScore"}

\* every stage that can fail the request has succeeded
AllStagesSucceeded ==
    /\ upstream >= 200 /\ upstream <= 299
    /\ articleText.len >= MinContent
    /\ reply.content # <<>>
    /\ reply.content[1].type = "text"
    /\ \E i, j \in 1..Len(reply.content[1].text) :
          i < j /\ reply.content[1].text[i] = "{" /\ reply.content[1].text[j] = "}"
    /\ reply.parse.ok
    /\ trace = <<"config", "body", "validate", "fetch", "extract", "prompt",
                 "complete", "recover", "validateScore", "assemble">>

\* C7: every response is either status 200 with a record assembled after all
\* stages succeeded, or a non-200 status whose body holds an error message
\* and nothing else; a failed fetch, extraction, completion call, delimiter
\* search or JSON parse never yields a 200 nor any field of a record.
C7_RecordOrErrorOnly ==
    \A k \in 1..Len(responses) :
        \/ /\ responses[k].status = 200
           /\ RecordKeys \subseteq DOMAIN responses[k].body
           /\ "error" \notin DOMAIN responses[k].body
           /\ AllStagesSucceeded
        \/ /\ responses[k].status # 200
           /\ DOMAIN responses[k].body = {"error"}

C7_Witness ==
    /\ Responded
    /\ reply.content # <<>>
    /\ reply.content[1].type = "text"
    /\ reply.content[1].text = WellFormedText
    /\ ~reply.parse.ok
    /\ Response.status = 500
    /\ DOMAIN Response.body = {"error"}

Succeeded == Responded /\ Response.status = 200

parsedData == reply.parse.value

\* C8: in every 200 response, factSections has as many entries as the array
\* the completion returned (none when it returned no array), in the same
\* order, and originalUrl is the articleUrl of the request body.
C8_SectionsAndUrlPreserved ==
    Succeeded =>
        LET fs == Get(parsedData, "factSections")
            out == Response.body.factSections
        IN /\ out.t = "array"
           /\ Len(out.a) = (IF fs.t = "array" THEN Len(fs.a) ELSE 0)
           /\ \A k \in 1..Len(out.a) :
                 /\ out.a[k].o.title = fs.a[k].o.title
                 /\ out.a[k].o.content = fs.a[k].o.content
           /\ Response.body.originalUrl = Get(reqBody.value, "articleUrl")

C8_Witness ==
    /\ Succeeded
    /\ Response.body.originalUrl = Str(UrlB)
    /\ Len(Response.body.factSections.a) = 2
    /\ Response.body.factSections.a[1].o.title = Str(TitleB)
    /\ Response.body.factSections.a[2].o.title = Str(TitleB)

ScoreFields == {"s", "p", "i", "c", "e", "total"}

\* C9: the score of a returned record is all or nothing: it is null unless
\* s, p, i, c, e and total are numbers and justifications is present, a
\* non-null score carries those six numbers, and an invalid score does not
\* fail the request nor change the other fields.
C9_ScoreAllOrNothing ==
    /\ Succeeded =>
          LET sc == Get(parsedData, "spiceScore")
              out == Response.body.spiceScore
          IN /\ out.t \in {"null", "object"}
             /\ out.t = "object" =>
                   /\ DOMAIN out.o = ScoreFields
                   /\ \A f \in ScoreFields :
                         /\ out.o[f].t = "number"
                         /\ sc.t = "object" /\ sc.o[f] = out.o[f]
                   /\ sc.o.justifications.t # "undefined"
             /\ \A f \in {"date", "summary"} :
                   Get(parsedData, f).t # "undefined" =>
                       Response.body[f] = Get(parsedData, f)
             /\ Get(parsedData, "title").t = "string" =>
                   Response.body.title = Get(parsedData, "title")
    /\ (/\ Ran("assemble")
        /\ LET fs == Get(parsedData, "factSections")
           IN fs.t = "array" =>
                \A k \in 1..Len(fs.a) :
                    fs.a[k].t = "object" /\ fs.a[k].o.title.t = "string")
       => Succeeded

C9_Witness ==
    /\ Succeeded
    /\ Get(parsedData, "spiceScore").t = "object"
    /\ Get(parsedData, "spiceScore").o.total = Undef
    /\ \A f \in ScoreFields \ {"total"} :
          Get(parsedData, "spiceScore").o[f] = Num(1)
    /\ Get(parsedData, "spiceScore").o.justifications = Justifications
    /\ Response.body.spiceScore = Null
    /\ Len(Response.body.factSections.a) = 1

\* C10: in every returned record with a non-null score, each dimension is in
\* 1..5, total is in 5..25, and total is the sum of the five dimensions.
C10_ScoreInRange ==
    (Succeeded /\ Response.body.spiceScore.t = "object") =>
        LET sc == Response.body.spiceScore.o
        IN /\ \A f \in ScoreFields \ {"total"} : sc[f].n \in 1..5
           /\ sc.total.n \in 5..25
           /\ sc.total.n = sc.s.n + sc.p.n + sc.i.n + sc.c.n + sc.e.n

----------------------------------------------------------------------------
(* Properties of the helper functions, under SpecCleanup and SpecId *)

Cleaned == helper.fn = "cleanupJsonString" /\ helper.calls >= 1
CleanedTwice == helper.fn = "cleanupJsonString" /\ helper.calls = 2

\* C12: the JSON repair is idempotent: repairing a repaired text changes
\* nothing more, for every text.
C12_CleanupIdempotent == CleanedTwice => helper.twice = helper.once

\* a text in which both repairs found something to do
C12_Witness ==
    /\ CleanedTwice
    /\ HasEscapedQuote(helper.input)
    /\ helper.once # UnescapeQuotes(helper.input)
    /\ helper.twice = helper.once

\* the escape sequences of a JSON string (\uXXXX is not drawn here)
JsonEscapeChars == {"\"", "\\", "/", "b", "f", "n", "r", "t"}

\* s is the inside of a valid JSON string: every backslash starts an escape
RECURSIVE ValidJsonEscapes(_)
ValidJsonEscapes(s) ==
    IF s = <<>> THEN TRUE
    ELSE IF Head(s) = "\\"
         THEN /\ Len(s) >= 2
              /\ s[2] \in JsonEscapeChars
              /\ ValidJsonEscapes(SubSeq(s, 3, Len(s)))
         ELSE ValidJsonEscapes(Tail(s))

\* C13: the JSON repair leaves valid JSON alone: a text whose escapes are all
\* valid comes out of the repair unchanged.
C13_ValidJsonUntouched ==
    (Cleaned /\ ValidJsonEscapes(helper.input)) => helper.once = helper.input

IdMade == helper.fn = "generateId" /\ helper.calls >= 1

\* the title's characters as the id keeps them: lower-cased, a blank as a
\* hyphen, anything but letters, digits, underscore and hyphen left out
RECURSIVE IdChars(_)
IdChars(s) ==
    IF s = <<>> THEN <<>>
    ELSE LET c == LowerChar(Head(s))
         IN (IF IsSpace(c) THEN <<"-">>
             ELSE IF IsWordOrHyphen(c) THEN <<c>> ELSE <<>>) \o IdChars(Tail(s))

\* the runs of non-hyphen characters of s, joined by single hyphens
RECURSIVE JoinRuns(_, _, _)
JoinRuns(s, out, gap) ==
    IF s = <<>> THEN out
    ELSE IF Head(s) = "-" THEN JoinRuns(Tail(s), out, out # <<>>)
    ELSE JoinRuns(Tail(s), out \o (IF gap THEN <<"-">> ELSE <<>>) \o <<Head(s)>>, FALSE)

\* 'rose-development-details'
RoseId == <<"r", "o", "s", "e", "-", "d", "e", "v", "e", "l", "o", "p", "m", "e",
            "n", "t", "-", "d", "e", "t", "a", "i", "l", "s">>

\* C14: a section id is a function of the title alone: the title lower-cased,
\* whitespace runs turned into a hyphen, other characters than letters, digits,
\* underscore and hyphen removed, hyphens collapsed and trimmed at both ends;
\* no id starts or ends with a hyphen; 'Rose Development: Details!' gives
\* 'rose-development-details'.
C14_IdFromTitle ==
    IdMade =>
        /\ helper.once = JoinRuns(IdChars(helper.input), <<>>, FALSE)
        /\ helper.once # <<>> =>
               (Head(helper.once) # "-" /\ helper.once[Len(helper.once)] # "-")
        /\ helper.input = RoseTitle => helper.once = RoseId

\* a title whose id needed every step: capitals, a blank run, punctuation and
\* hyphens at the ends
C14_Witness ==
    /\ IdMade
    /\ helper.input = <<"-", "A", " ", "!">>
    /\ helper.once = <<"a">>

----------------------------------------------------------------------------
(* Properties of the handler, continued *)

ListFields == {"highlights", "factSections", "quotes"}

ParsedOk == Ran("assemble")

NoElementThrows ==
    /\ ~AssemblyThrows(Get(parsedData, "factSections"))
    /\ ~QuotesThrow(Get(parsedData, "quotes"))

----------------------------------------------------------------------------
(* Properties of the record's images and date, under SpecScrape *)

PageImgs == doc.article.images
PageBase == UrlParts(originalUrl.s)
ImgUrl(k) == UrlString(Resolve(PageImgs[k].src, PageBase))

\* the k-th image passes every test but the one for repeats
Qualifies(k) ==
    /\ PageImgs[k].src # Undef
    /\ PageImgs[k].src.protocol # "bad"
    /\ Resolve(PageImgs[k].src, PageBase).protocol \in {"http:", "https:"}
    /\ IsLikelyContent(ParseIntAttr(PageImgs[k].width), ParseIntAttr(PageImgs[k].height))
    /\ ImgUrl(k) # Response.body.imageUrl

\* the positions of the images accepted: the first of each qualifying URL
AcceptedImgs ==
    {k \in 1..Len(PageImgs) :
        Qualifies(k) /\ \A j \in 1..(k - 1) : Qualifies(j) => ImgUrl(j) # ImgUrl(k)}

\* C15: in every record the additional images are at most 10, without
\* repeats, without the primary image, all absolute http or https URLs; they
\* are the first 10 accepted images in document order when more qualify.
C15_AdditionalImages ==
    Succeeded =>
        LET urls == Response.body.imageUrls.a
        IN /\ Len(urls) <= 10
           /\ \A i, j \in 1..Len(urls) : i # j => urls[i] # urls[j]
           /\ \A i \in 1..Len(urls) :
                 /\ urls[i] # Response.body.imageUrl
                 /\ urls[i].s[1] \in {"http:", "https:"}
                 /\ urls[i].s[2] = "//"
                 /\ urls[i].s[3] # ""
           /\ ~ReadabilityTooShort(doc.article) =>
                 /\ Len(urls) = IF Cardinality(AcceptedImgs) > 10 THEN 10
                                 ELSE Cardinality(AcceptedImgs)
                 /\ \A i \in 1..Len(urls) :
                       \E k \in AcceptedImgs :
                          /\ urls[i] = ImgUrl(k)
                          /\ Cardinality({j \in AcceptedImgs : j < k}) = i - 1

\* a record of a page with the primary image among twelve images: eleven
\* qualify, ten are kept
C15_Witness ==
    /\ Succeeded
    /\ Len(PageImgs) = 12
    /\ Response.body.imageUrl = UrlString(OgUrl)
    /\ \E k \in 1..Len(PageImgs) : PageImgs[k].src = OgUrl
    /\ Cardinality(AcceptedImgs) = 11
    /\ Len(Response.body.imageUrls.a) = 10

\* C20: the record's date is the date of the completion when it gave one
\* and the date scraped from the page otherwise: with no date (absent or
\* empty) in the parsed object and a date found on the page, the record's date
\* is the scraped date.
C20_DateFallsBackToScraped ==
    (Succeeded /\ ~Truthy(Get(parsedData, "date")) /\ scraped.date # Null) =>
        ("date" \in DOMAIN Response.body /\ Response.body.date = scraped.date)

----------------------------------------------------------------------------
(* Properties of the completion reply and of the order of the stages *)

HasText(segment) == segment.type = "text" /\ segment.text # <<>>

FirstText(content) ==
    content[CHOOSE k \in 1..Len(content) :
                /\ HasText(content[k])
                /\ \A j \in 1..(k - 1) : ~HasText(content[j])]

\* C16: when the completion has a text segment, the first text segment,
\* wherever it is in the list, is what goes to recovery, and the response is
\* the one recovery makes of it; the empty-completion error is given only to
\* a completion without any text segment.
C16_FirstTextSegmentUsed ==
    (Responded /\ \E k \in 1..Len(reply.content) : HasText(reply.content[k])) =>
        /\ Response # OuterCatch(EmptyCompletion)
        /\ Response = Recover([reply EXCEPT !.content = <<FirstText(reply.content)>>],
                               scraped, originalUrl).response

\* C16, as the handler has it: the first segment decides.  When it is a
\* text, recovery works on it and the response is not the empty-completion
\* error; when it is not (also with a text segment after it), the response is
\* the empty-completion error.
C16_FirstSegmentDecides ==
    (Responded /\ reply.content # <<>>) =>
        IF HasText(reply.content[1])
        THEN /\ Response # OuterCatch(EmptyCompletion)
             /\ Response = Recover([reply EXCEPT !.content = <<reply.content[1]>>],
                                    scraped, originalUrl).response
        ELSE Response = OuterCatch(EmptyCompletion)

\* a completion whose text comes second is answered as an empty one
C16_Witness ==
    /\ Responded
    /\ reply.content = <<ToolSegment, TextSegment(WellFormedText)>>
    /\ reply.parse.ok
    /\ Response = OuterCatch(EmptyCompletion)

StageOrder ==
    <<"config", "body", "validate", "fetch", "extract", "prompt", "complete",
      "recover", "validateScore", "assemble">>

IsPrefix(s, t) == Len(s) <= Len(t) /\ \A i \in 1..Len(s) : s[i] = t[i]

InOrder ==
    /\ IsPrefix(trace, StageOrder)
    /\ Ran("complete") =>
          (upstream >= 200 /\ upstream <= 299 /\ Ran("extract")
           /\ articleText.len >= MinContent)
    /\ (Responded /\ Response.status # 200) => pc = "done"

NoStepBack ==
    /\ IsPrefix(trace, trace')
    /\ pc = "done" => (pc' = "done" /\ trace' = trace /\ responses' = responses)

\* C17: the stages run at most once each and in the order fetch,
\* extraction, prompt, completion, recovery, validation, assembly; the
\* completion is called only after a 2xx fetch and an extraction with enough
\* text; after a failure no later stage runs and none is tried again.
C17_StagesInOrderOnce == []InOrder /\ [][NoStepBack]_vars

\* a request that went through every stage, and its last step
C17_Witness ==
    /\ Succeeded
    /\ trace = StageOrder
    /\ pc = "done"

RecoveryFailed == Responded /\ Ran("recover") /\ ~Ran("validateScore")

\* recovery of r fails: no delimiters, or the parser rejects the substring
FailsRecovery(r) ==
    /\ r.content # <<>>
    /\ HasText(r.content[1])
    /\ (~ExtractJson(r.content[1].text).ok \/ ~r.parse.ok)

\* C18: an error response carries no internal diagnostics: whatever
\* completion text fails JSON recovery, the error message returned is the
\* one any other failing text would get.
C18_RecoveryErrorsAlike ==
    RecoveryFailed =>
        \A r \in CompletionReplies :
            FailsRecovery(r) => Recover(r, scraped, originalUrl).response = Response

\* r fails recovery the way the reply of this request did: both without
\* delimiters, or both rejected by the parser with one message
SameFailure(r) ==
    /\ FailsRecovery(r)
    /\ ExtractJson(r.content[1].text).ok = ExtractJson(reply.content[1].text).ok
    /\ ExtractJson(r.content[1].text).ok => r.parse.message = reply.parse.message

\* C18, as the handler has it: the response to a failed recovery is a 500
\* whose message depends on the completion text only through the kind of
\* failure and the parser's message, which is returned with its position.
C18_RecoveryErrorFromParserOnly ==
    RecoveryFailed =>
        /\ Response.status = 500
        /\ \A r \in CompletionReplies :
              SameFailure(r) => Recover(r, scraped, originalUrl).response = Response
        /\ (ExtractJson(reply.content[1].text).ok /\ Contains(reply.parse.message, "position"))
              => Contains(Response.body.error, "position")

\* a response that carries the parser's position
C18_Witness ==
    /\ RecoveryFailed
    /\ reply.content[1].text = <<"p", "{", "p", "}", "p">>
    /\ Contains(Response.body.error, "position")
    /\ Contains(Response.body.error, "1")

----------------------------------------------------------------------------
(* Properties of two requests in flight, under SpecPair *)

\* the responses a request with the inputs and the external replies recorded
\* in st gets when it is the only one
AloneResponses(st) ==
    IF ~apiKey THEN {OuterCatch(ConfigErrorMessage)}
    ELSE IF ~st.reqBody.json THEN {OuterCatch(<<"Unexpected token in JSON">>)}
    ELSE IF st.reqBody.value.t \in {"null", "undefined"}
    THEN {OuterCatch(<<"Cannot destructure property 'articleUrl'">>)}
    ELSE LET articleUrl == ArticleUrlOf(st.reqBody.value)
         IN IF ValidateUrl(articleUrl) # <<>> THEN {ValidateUrl(articleUrl)[1]}
            ELSE IF st.upstream = 0
            THEN {InnerCatch(e) : e \in NetworkErrors \cup {AbortError}}
            ELSE IF ~(st.upstream >= 200 /\ st.upstream <= 299)
            THEN {InnerCatch(FetchFailure(st.upstream))}
            ELSE IF st.doc = NoDoc THEN {InnerCatch(e) : e \in NetworkErrors}
            ELSE IF ~ExtractContent(st.doc).ok THEN {InnerCatch(InsufficientContent)}
            ELSE IF st.reply = NoReply THEN {OuterCatch(m) : m \in ApiErrors}
            ELSE {Recover(st.reply, ScrapeLocals(st.doc, articleUrl.s), articleUrl).response}

\* C19: requests in flight together do not interfere: in every interleaving
\* of the steps of two requests, each gets the response it would get alone with
\* the same inputs and the same replies of the source site and the completion
\* service.
C19_NoInterference ==
    \A st \in {Running, parked} :
        /\ Len(st.responses) <= 1
        /\ Len(st.responses) = 1 => st.responses[1] \in AloneResponses(st)

\* one request is answered with its record while the other, for another URL
\* and started before that answer, waits for its completion
C19_Witness ==
    /\ Succeeded
    /\ parked.pc = "calling"
    /\ parked.originalUrl # originalUrl
    /\ parked.doc # doc
    /\ Response.body.originalUrl = originalUrl

----------------------------------------------------------------------------
(* Properties of the helper functions, continued: SpecId and SpecLoop *)

IdMadeTwice == helper.fn = "generateId" /\ helper.calls = 2

\* C30: generateId is a projection onto its output format: an id holds
\* only lowercase letters, digits, underscores and single hyphens, and
\* generateId of an id is that id, the empty id included.
C30_IdIsProjection ==
    /\ IdMade =>
          /\ \A i \in 1..Len(helper.once) :
                \/ \E j \in 1..Len(Lowercase) : helper.once[i] = Lowercase[j]
                \/ helper.once[i] \in Digits \cup {"_", "-"}
          /\ \A i \in 1..(Len(helper.once) - 1) :
                ~(helper.once[i] = "-" /\ helper.once[i + 1] = "-")
    /\ IdMadeTwice => helper.twice = helper.once

\* an id made of a title with a capital and hyphens to collapse, made again
C30_Witness ==
    /\ IdMadeTwice
    /\ helper.input = <<"A", " ", "-", "b">>
    /\ helper.once = <<"a", "-", "b">>
    /\ helper.twice = <<"a", "-", "b">>

\* the empty id is made again as the empty id
C30_EmptyIdReached ==
    IdMadeTwice /\ helper.input = <<"!", "-">> /\ helper.once = <<>> /\ helper.twice = <<>>

LoopDone == helper.fn = "quoteLoop" /\ helper.done

\* the number of backslash-quote sequences of s
EscapedQuotes(s) == Cardinality({i \in 1..(Len(s) - 1) : s[i] = "\\" /\ s[i + 1] = "'"})

\* C25: the fixed-point loop of the quote repair ends for every text, and
\* what it leaves has no backslash followed by a single quote.
C25_LoopTerminates ==
    /\ <>LoopDone
    /\ [](LoopDone =>
            /\ EscapedQuotes(helper.cleaned) = 0
            /\ helper.cleaned = UnescapeQuotes(helper.input))

\* a text the loop needed three passes for
C25_Witness ==
    /\ LoopDone
    /\ helper.passes = 3
    /\ helper.input = <<"\\", "\\", "\\", "'">>
    /\ helper.cleaned = <<"'">>

\* a step of the model that is one pass of the loop
IsPass == helper.fn = "quoteLoop" /\ helper'.passes = helper.passes + 1

\* C26: every pass of the loop strictly reduces the number of
\* backslash-quote sequences of the text.
C26_PassReducesCount ==
    [][IsPass => EscapedQuotes(helper'.cleaned) < EscapedQuotes(helper.cleaned)]_vars

\* C26, as the loop has it: every pass makes the text strictly shorter, by
\* one backslash for each sequence replaced, and never raises the number of
\* sequences; the number need not fall.
C26_PassShortens ==
    [][IsPass =>
         /\ Len(helper'.cleaned) < Len(helper.cleaned)
         /\ EscapedQuotes(helper'.cleaned) <= EscapedQuotes(helper.cleaned)]_vars

\* after a pass the text has as many sequences as before it
C26_Witness ==
    /\ helper.fn = "quoteLoop"
    /\ helper.passes = 1
    /\ helper.input = <<"\\", "\\", "'">>
    /\ EscapedQuotes(helper.cleaned) = EscapedQuotes(helper.input)

----------------------------------------------------------------------------
(* Properties of the delimiter search, under SpecRecover *)

Searched == helper.fn = "recover" /\ helper.calls = 1

\* the text has no '{', or no '}', or its last '}' lies before its first '{'
Undelimited(t) ==
    \/ \A i \in 1..Len(t) : t[i] # "{"
    \/ \A i \in 1..Len(t) : t[i] # "}"
    \/ \A i, j \in 1..Len(t) : (t[i] = "{" /\ t[j] = "}") => j < i

\* C24: recovery fails with the no-delimiters error exactly when the
\* completion text has no '{', or no '}', or its last '}' before its first
\* '{'; otherwise what goes to repair is the text from the first '{' to the
\* last '}' inclusive, the prose before and after left out.
C24_DelimitersDecide ==
    Searched =>
        LET t == helper.input
        IN /\ Undelimited(t) <=> helper.twice = OuterCatch(ParseCatch(NoDelimiters))
           /\ Undelimited(t) <=> ~helper.once.ok
           /\ ~Undelimited(t) =>
                 \E i, j \in 1..Len(t) :
                    /\ i < j
                    /\ t[i] = "{" /\ \A k \in 1..(i - 1) : t[k] # "{"
                    /\ t[j] = "}" /\ \A k \in (j + 1)..Len(t) : t[k] # "}"
                    /\ helper.once.text = [k \in 1..(j - i + 1) |-> t[i + k - 1]]
                    /\ helper.twice.status = 200

\* prose, an object with a brace inside, prose
C24_Witness ==
    /\ Searched
    /\ helper.input = <<"p", "{", "}", "}", "p">>
    /\ helper.once.ok
    /\ helper.once.text = <<"{", "}", "}">>

----------------------------------------------------------------------------
(* Properties of the prompt and of the primary image, under SpecScrape *)

\* C21: the article text in the prompt is the extracted text when that has
\* at most 150,000 characters, else its first 150,000 characters followed by
\* the truncation marker; the marker is there exactly when the text was
\* longer; the rest of the prompt is the hints (title, source, date, author).
C21_PromptTextWithinBudget ==
    Ran("prompt") =>
        /\ Length(articleText) <= 150000 => (prompt.text = articleText /\ ~prompt.marker)
        /\ Length(articleText) > 150000 =>
               (Length(prompt.text) = 150000 /\ prompt.text.pad = 0 /\ prompt.marker)
        /\ prompt.marker <=> Length(articleText) > 150000
        /\ prompt.title = scraped.fetchedTitle
        /\ prompt.source = scraped.inferredSource
        /\ prompt.date \in {scraped.date, NotFoundByScraper}
        /\ prompt.author \in {scraped.author, NotFoundByScraper}
        /\ (prompt.date = NotFoundByScraper) <=> (scraped.date = Null)

\* a prompt of an article one character over the budget
C21_Witness ==
    /\ Ran("prompt")
    /\ Length(articleText) = 150001
    /\ prompt.marker
    /\ Length(prompt.text) = 150000
    /\ prompt.date = Str(LongDate)

\* the og:image content cannot be used: no URL, or another scheme
Unusable(og) == og.protocol \notin {"", "http:", "https:"}

\* C22: in every record the primary image URL is null or the og:image
\* content resolved against the page URL, an absolute http or https URL; a
\* content that does not resolve, or resolves to another scheme, gives null,
\* and the page goes on to the prompt all the same.
C22_PrimaryImageResolved ==
    /\ Succeeded =>
          LET og == doc.ogImage
              img == Response.body.imageUrl
          IN /\ img = scraped.imageUrl
             /\ img # Null =>
                   /\ og # Undef /\ ~Unusable(og)
                   /\ img.s[1] \in {"http:", "https:"}
                   /\ img.s[2] = "//"
                   /\ Len(img.s) > 3
                   /\ og.protocol # "" => img = UrlString(og)
                   /\ og.protocol = "" =>
                         /\ img.s[1] = PageBase.protocol
                         /\ img.s[Len(img.s)] = og.path
                         /\ og.host = <<>> =>
                               img.s = <<PageBase.protocol, "//">> \o PageBase.host \o <<og.path>>
             /\ (og = Undef \/ Unusable(og)) => img = Null
    /\ (doc # NoDoc /\ ExtractContent(doc).ok) =>
          /\ Ran("prompt")
          /\ (doc.ogImage # Undef /\ Unusable(doc.ogImage)) => scraped.imageUrl = Null
          /\ \A k \in 1..Len(responses) :
                responses[k].status # 200 =>
                    responses[k].body.error # InsufficientContent.message

\* a record of a page whose og:image is a relative reference
C22_Witness ==
    /\ Succeeded
    /\ doc.ogImage = Url("", <<>>, "og")
    /\ Response.body.imageUrl = Str(<<"http:", "//", "a", "og">>)

\* a record of a page whose og:image is no URL: the field is null
C22_UnresolvableReached ==
    /\ Succeeded
    /\ doc.ogImage = Url("bad", <<>>, "")
    /\ Response.body.imageUrl = Null

----------------------------------------------------------------------------
(* The size test of the images in the content, under SpecScrape *)

\* the k-th image passes the tests of its source, of its scheme and of
\* repeats, and the page has no more images than the list may hold
KeptButForSize(k) ==
    /\ PageImgs[k].src # Undef
    /\ PageImgs[k].src.protocol # "bad"
    /\ Resolve(PageImgs[k].src, PageBase).protocol \in {"http:", "https:"}
    /\ ImgUrl(k) # Response.body.imageUrl
    /\ \A j \in 1..Len(PageImgs) :
          (j # k /\ PageImgs[j].src # Undef /\ PageImgs[j].src.protocol # "bad")
              => ImgUrl(j) # ImgUrl(k)
    /\ Len(PageImgs) <= 10

Kept(k) == \E i \in 1..Len(Response.body.imageUrls.a) : Response.body.imageUrls.a[i] = ImgUrl(k)

Declared(attr) == attr # Undef
Below(attr, n) == attr.t = "number" /\ attr.n < n
NoSize(attr) == attr \in {Undef, Num(0)}
Reaches(attr, n) == attr.t = "number" /\ attr.n >= n

ImagesHarvested == Succeeded /\ ~ReadabilityTooShort(doc.article)

\* C27 as stated: an image is rejected for its size only when its width and
\* its height are both declared and both below 50.
C27_RejectedOnlyBothDeclaredSmall ==
    ImagesHarvested =>
        \A k \in 1..Len(PageImgs) :
            (KeptButForSize(k) /\ ~Kept(k)) =>
                /\ Declared(PageImgs[k].width) /\ Below(PageImgs[k].width, 50)
                /\ Declared(PageImgs[k].height) /\ Below(PageImgs[k].height, 50)

\* C27: an image that passes the other tests is kept exactly when neither
\* dimension has a size (absent or 0), or one of them is a number of 50 or
\* more; so an image with one dimension of 1..49 or no number, and the other
\* absent, is rejected.
C27_SizeTest ==
    ImagesHarvested =>
        \A k \in 1..Len(PageImgs) :
            KeptButForSize(k) =>
                (Kept(k) <=>
                    \/ NoSize(PageImgs[k].width) /\ NoSize(PageImgs[k].height)
                    \/ Reaches(PageImgs[k].width, 50)
                    \/ Reaches(PageImgs[k].height, 50))

\* a record of a page with an image of width 49 and no height: not kept
C27_Witness ==
    /\ ImagesHarvested
    /\ \E k \in 1..Len(PageImgs) :
          /\ KeptButForSize(k)
          /\ PageImgs[k].width = Num(49)
          /\ PageImgs[k].height = Undef
          /\ ~Kept(k)

----------------------------------------------------------------------------
(* The deadline of the page fetch *)

Retrieving == pc \in {"fetching", "readingBody"}

\* C23: the retrieval of the page, headers and body, does not stay pending
\* past the deadline: a request that is fetching or reading the body leaves
\* that stage (with the page, an error or the timeout).
C23_RetrievalBounded == Retrieving ~> ~Retrieving

\* what the deadline does bound: the wait for the response headers
C23_HeadersBounded == (pc = "fetching") ~> (pc # "fetching")

\* the body is awaited with the timer cleared: nothing ends the wait
C23_BodyStalls == pc = "readingBody" /\ timer = "cleared" /\ ~aborted /\ ~ENABLED TimerFire

\* the fetch rejected with an error that is not the abort
FetchRejected ==
    /\ Ran("fetch")
    /\ upstream = 0
    /\ Responded
    /\ Response.status = 500

\* C28: a request has no response while the handler runs and one when it has
\* returned, never two.  After a fetch rejection that is not the timeout the
\* timer is still set (it is cleared only when the fetch resolves), and when
\* it fires then the response stays the one of status 500.
C28_OneResponse ==
    /\ [](/\ Len(responses) <= 1
          /\ (pc = "done") <=> (Len(responses) = 1)
          /\ FetchRejected => timer \in {"pending", "fired"}
          /\ (timer = "cleared") <=> (upstream # 0))
    /\ [][(timer = "pending" /\ timer' = "fired" /\ pc = "done") =>
             /\ FetchRejected
             /\ responses' = responses
             /\ Response.status = 500
             /\ pc' = "done"]_vars

\* the timer has fired after the 500 of a rejected fetch
C28_Witness ==
    /\ FetchRejected
    /\ timer = "fired"
    /\ aborted
    /\ Len(responses) = 1
    /\ Response.body.error = <<"request failed, reason: ENOTFOUND">>

----------------------------------------------------------------------------
(* Sections without a title *)

\* the section has no title that is a string: null, no title, another type
LacksTitle(section) ==
    \/ section = Null
    \/ "title" \notin DOMAIN section.o
    \/ section.o.title = Undef
    \/ section.o.title.t \in {"number", "null", "array", "object"}

SectionLacksTitle ==
    /\ Ran("assemble")
    /\ Get(parsedData, "factSections").t = "array"
    /\ \E k \in 1..Len(Get(parsedData, "factSections").a) :
          LacksTitle(Get(parsedData, "factSections").a[k])

\* C29: when the completion's factSections is an array with an element that
\* has no string title, the request ends with status 500 and an error body,
\* no record; every section of a 200 response has an id, a string, and the
\* sections are as many as the completion gave.
C29_SectionWithoutTitleFails ==
    /\ SectionLacksTitle =>
          /\ pc = "done"
          /\ Len(responses) = 1
          /\ Response.status = 500
          /\ DOMAIN Response.body = {"error"}
    /\ Succeeded =>
          /\ ~SectionLacksTitle
          /\ \A k \in 1..Len(Response.body.factSections.a) :
                /\ "id" \in DOMAIN Response.body.factSections.a[k].o
                /\ Response.body.factSections.a[k].o.id.t = "string"
          /\ Get(parsedData, "factSections").t = "array" =>
                Len(Response.body.factSections.a) = Len(Get(parsedData, "factSections").a)

\* a completion with a good section and then one without a title: status 500
C29_Witness ==
    /\ SectionLacksTitle
    /\ Len(Get(parsedData, "factSections").a) = 2
    /\ Get(Get(parsedData, "factSections").a[1], "title") = Str(TitleA)
    /\ Get(Get(parsedData, "factSections").a[2], "title") = Undef
    /\ Get(parsedData, "factSections").a[2] # Null
    /\ Response.status = 500

\* the same with a null element and with a title that is a number
C29_NullSectionReached ==
    /\ SectionLacksTitle
    /\ Get(parsedData, "factSections").a[1] = Null
    /\ Response.status = 500

C29_NumberTitleReached ==
    /\ SectionLacksTitle
    /\ Get(Get(parsedData, "factSections").a[1], "title") = Num(3)
    /\ Response.status = 500

============================================================================
